---- MODULE Spec2Model ----
(***************************************************************************)
(* A model of updater.py, the STROOP launcher/updater: the Version value   *)
(* type, the config store, the Install worker thread and the top-level     *)
(* script (load, launch, update check, prune).                             *)
(*                                                                         *)
(* Python strings are modelled as sequences of character codes (ASCII), so *)
(* that parsing, rendering and string comparison are computed, not assumed.*)
(***************************************************************************)
EXTENDS Integers, Sequences, FiniteSets, TLC

(***************************************************************************)
(* String literals of the source.                                          *)
(***************************************************************************)
S_devdash == <<100, 101, 118, 45>>                  \* 'dev-'
S_v == <<118>>                                      \* 'v'
S_dot == <<46>>                                     \* '.'
S_dash == <<45>>                                    \* '-'
S_Dev == <<68, 101, 118>>                           \* 'Dev'
S_versions == <<118, 101, 114, 115, 105, 111, 110, 115, 47>>   \* 'versions/'

\* None, for config['default_install_id']: install ids start at 1
None == 0

(***************************************************************************)
(* Python built-ins on strings and sequences.                              *)
(***************************************************************************)
IsDigit(c) == c \in 48..57
\* what \s matches among the ASCII codes
IsSpace(c) == c \in (9..13) \cup (28..32)

\* s.startswith(p)
StartsWith(s, p) == Len(s) >= Len(p) /\ SubSeq(s, 1, Len(p)) = p

\* s[n:]
Drop(s, n) == IF n >= Len(s) THEN <<>> ELSE SubSeq(s, n + 1, Len(s))

\* s.split(c) for a one-character separator: always at least one token
RECURSIVE Split(_, _)
Split(s, c) ==
  IF \A i \in 1..Len(s) : s[i] # c
  THEN <<s>>
  ELSE LET i == CHOOSE k \in 1..Len(s) : s[k] = c /\ \A j \in 1..(k - 1) : s[j] # c
       IN  <<SubSeq(s, 1, i - 1)>> \o Split(Drop(s, i), c)

\* sep.join(toks)
RECURSIVE Join(_, _)
Join(toks, sep) ==
  IF Len(toks) = 0 THEN <<>>
  ELSE IF Len(toks) = 1 THEN toks[1]
  ELSE toks[1] \o sep \o Join(Tail(toks), sep)

\* str(n) for an int
RECURSIVE NatToStr(_)
NatToStr(n) ==
  IF n < 10 THEN <<48 + n>> ELSE NatToStr(n \div 10) \o <<48 + (n % 10)>>

IntToStr(n) == IF n < 0 THEN S_dash \o NatToStr(0 - n) ELSE NatToStr(n)

\* s.strip() of whitespace
RECURSIVE Strip(_)
Strip(s) ==
  IF Len(s) = 0 THEN s
  ELSE IF IsSpace(s[1]) THEN Strip(Tail(s))
  ELSE IF IsSpace(s[Len(s)]) THEN Strip(SubSeq(s, 1, Len(s) - 1))
  ELSE s

RECURSIVE DigitsVal(_)
DigitsVal(s) ==
  IF Len(s) = 0 THEN 0
  ELSE DigitsVal(SubSeq(s, 1, Len(s) - 1)) * 10 + (s[Len(s)] - 48)

\* int(s): surrounding whitespace and one sign are accepted, single
\* underscores may separate digits; anything else raises ValueError
py_int(s) ==
  LET t == Strip(s)
      signed == Len(t) > 0 /\ t[1] \in {43, 45}
      u == IF signed THEN Tail(t) ELSE t
      wellformed ==
        /\ Len(u) > 0
        /\ \A i \in 1..Len(u) : IsDigit(u[i]) \/ u[i] = 95
        /\ IsDigit(u[1]) /\ IsDigit(u[Len(u)])
        /\ \A i \in 1..(Len(u) - 1) : ~(u[i] = 95 /\ u[i + 1] = 95)
      digits == SelectSeq(u, IsDigit)
  IN  IF ~wellformed THEN [ok |-> FALSE, n |-> 0]
      ELSE [ok |-> TRUE,
            n |-> IF signed /\ t[1] = 45 THEN 0 - DigitsVal(digits) ELSE DigitsVal(digits)]

\* a < b for two str (by code point) or two tuples of int: the first
\* differing position decides, a proper prefix is less
IntSeqLess(a, b) ==
  \E k \in 0..Len(a) :
    /\ k <= Len(b)
    /\ \A i \in 1..k : a[i] = b[i]
    /\ IF k = Len(a) THEN k < Len(b)
       ELSE k < Len(b) /\ a[k + 1] < b[k + 1]

StrLess(a, b) == IntSeqLess(a, b)

\* a < b for two lists of str
StrListLess(a, b) ==
  \E k \in 0..Len(a) :
    /\ k <= Len(b)
    /\ \A i \in 1..k : a[i] = b[i]
    /\ IF k = Len(a) THEN k < Len(b)
       ELSE k < Len(b) /\ StrLess(a[k + 1], b[k + 1])

(***************************************************************************)
(* class Version.  version_number is a list of str (seqtype "list") when   *)
(* built by parse or from a Dev release, a tuple of int (seqtype "tuple")  *)
(* when built from a release tag.                                          *)
(***************************************************************************)
Version(dev, seqtype, version_number) ==
  [dev |-> dev, seqtype |-> seqtype, version_number |-> version_number]

Version_parse(version_str) ==
  LET dev == StartsWith(version_str, S_devdash)
      s1 == IF dev THEN Drop(version_str, Len(S_devdash)) ELSE version_str
      s2 == Drop(s1, Len(S_v))
  IN  Version(dev, "list", Split(s2, S_dot[1]))

Version_str(v) ==
  LET parts == [i \in 1..Len(v.version_number) |->
                  IF v.seqtype = "tuple" THEN IntToStr(v.version_number[i])
                  ELSE v.version_number[i]]
  IN  (IF v.dev THEN S_devdash ELSE <<>>) \o S_v \o Join(parts, S_dot)

\* list == tuple is False whatever the elements
Version_eq(a, b) ==
  /\ a.dev = b.dev
  /\ a.seqtype = b.seqtype
  /\ a.version_number = b.version_number

\* __lt__: [raised, value]
Version_lt(a, b) ==
  IF a.dev # b.dev THEN [raised |-> "ValueError", value |-> FALSE]
  ELSE IF a.seqtype # b.seqtype THEN [raised |-> "TypeError", value |-> FALSE]
  ELSE [raised |-> "none",
        value |-> IF a.seqtype = "tuple"
                  THEN IntSeqLess(a.version_number, b.version_number)
                  ELSE StrListLess(a.version_number, b.version_number)]

\* functools.total_ordering: a <= b is (a < b) or a == b
Version_le(a, b) ==
  LET lt == Version_lt(a, b)
  IN  IF lt.raised # "none" THEN lt
      ELSE [raised |-> "none", value |-> lt.value \/ Version_eq(a, b)]

\* functools.total_ordering: a > b is not (a < b) and a != b
Version_gt(a, b) ==
  LET lt == Version_lt(a, b)
  IN  IF lt.raised # "none" THEN lt
      ELSE [raised |-> "none", value |-> ~lt.value /\ ~Version_eq(a, b)]

\* None, where a Version is expected (max(..., default=None))
NoVersion == Version(FALSE, "none", <<>>)

\* max(vs, default=None): the first item, replaced by each later item that is
\* greater than it
RECURSIVE MaxFrom(_, _)
MaxFrom(best, rest) ==
  IF Len(rest) = 0 THEN best
  ELSE MaxFrom(IF Version_gt(rest[1], best).value THEN rest[1] ELSE best, Tail(rest))

py_max(vs) == IF Len(vs) = 0 THEN NoVersion ELSE MaxFrom(vs[1], Tail(vs))

(***************************************************************************)
(* get_version_from_release.  A release is [tag_name, body, assets].       *)
(***************************************************************************)
IsVerChar(c) == IsDigit(c) \/ c = S_dot[1]

\* length of the longest run of [\d\.] characters after position i
RunLen(body, i) ==
  CHOOSE k \in 0..(Len(body) - i) :
    /\ \A j \in 1..k : IsVerChar(body[i + j])
    /\ i + k = Len(body) \/ ~IsVerChar(body[i + k + 1])

\* whether 'v[\d\.]+(\s|$)' matches at position i
MatchAt(body, i) ==
  /\ body[i] = S_v[1]
  /\ RunLen(body, i) >= 1
  /\ \/ i + RunLen(body, i) = Len(body)
     \/ IsSpace(body[i + RunLen(body, i) + 1])

\* re.search('v[\d\.]+(\s|$)', body): the leftmost match; group(0) holds the
\* terminating whitespace character when there is one
re_search(body) ==
  IF \A i \in 1..Len(body) : ~MatchAt(body, i)
  THEN [found |-> FALSE, group0 |-> <<>>]
  ELSE LET i == CHOOSE k \in 1..Len(body) :
                  MatchAt(body, k) /\ \A j \in 1..(k - 1) : ~MatchAt(body, j)
           e == i + RunLen(body, i)
       IN  [found |-> TRUE,
            group0 |-> SubSeq(body, i, IF e = Len(body) THEN e ELSE e + 1)]

get_version_from_release(release) ==
  IF Len(release.tag_name) = 0
  THEN [raised |-> "IndexError", version |-> NoVersion]
  ELSE
    LET tag_name == IF release.tag_name[1] = S_v[1]
                    THEN Drop(release.tag_name, 1) ELSE release.tag_name
    IN  IF tag_name = S_Dev
        THEN LET m == re_search(release.body)
             IN  IF ~m.found
                 THEN [raised |-> "AttributeError", version |-> NoVersion]
                 ELSE [raised |-> "none",
                       version |-> Version(TRUE, "list",
                                           Split(Drop(m.group0, 1), S_dot[1]))]
        ELSE LET toks == Split(tag_name, S_dot[1])
             IN  IF \E i \in 1..Len(toks) : ~py_int(toks[i]).ok
                 THEN [raised |-> "ValueError", version |-> NoVersion]
                 ELSE [raised |-> "none",
                       version |-> Version(FALSE, "tuple",
                                           [i \in 1..Len(toks) |-> py_int(toks[i]).n])]

(***************************************************************************)
(* The inputs the model draws from.                                        *)
(***************************************************************************)
Asset(ok) == [updated_at_ok |-> ok]

Release(tag_name, body, assets) ==
  [tag_name |-> tag_name, body |-> body, assets |-> assets]

\* tag 'Dev', body 'v1.9'
RelDev1_9 == Release(S_Dev, <<118, 49, 46, 57>>, <<Asset(TRUE)>>)
\* tag 'Dev', body 'v1.10'
RelDev1_10 == Release(S_Dev, <<118, 49, 46, 49, 48>>, <<Asset(TRUE)>>)
\* tag 'v2.0', a release-channel tag
RelTag2_0 == Release(<<118, 50, 46, 48>>, <<>>, <<Asset(TRUE)>>)
\* tag 'Dev' whose body names no version: 'x'
RelDevNoMatch == Release(S_Dev, <<120>>, <<Asset(TRUE)>>)
\* tag 'Dev', body 'v1.9', no asset
RelDevNoAsset == Release(S_Dev, <<118, 49, 46, 57>>, <<>>)

\* no release read yet
NoRelease == Release(<<>>, <<>>, <<>>)

ReleaseUniverse == {RelDev1_9, RelDev1_10, RelTag2_0, RelDevNoMatch, RelDevNoAsset}


(***************************************************************************)
(* Bounds of the model.                                                    *)
(***************************************************************************)
\* runs of the script, one after the other, over the same config.json
MaxRuns == 2
\* release in the feed of one run
MaxFeedLen == 2
\* install ids handed out where the releases are drawn as they are read
\* (caps config['next_install_id'] in LoopStep; a given feed needs no cap)
MaxInstallId == 2

(***************************************************************************)
(* State.                                                                  *)
(***************************************************************************)
VARIABLES
  pc,                       \* where the script is
  run,                      \* runs started so far
  file,                     \* config.json
  dirs,                     \* install directories that exist on disk
  exes,                     \* install directories that hold a STROOP.exe
  config,                   \* the config dict (line 176)
  installed_versions,       \* line 177
  latest_installed_dev,     \* line 179
  latest_installed_release, \* line 180
  release,                  \* the loop variable of line 194
  idx,                      \* how many release the loop of line 194 has read
  install,                  \* the Install object of line 209
  wpc,                      \* where install.thread is
  out,                      \* which messages the run has printed
  snapshot,                 \* list(config['installed']) of line 227
  pidx,                     \* position of the for loop of line 227 (1-based)
  begun,                    \* history: the Install.begin calls of this run
  issued,                   \* history: the install ids of all Install.begin calls
  attempts,                 \* history: the uninstall_version calls of this run
  fault,                    \* history: the call of the worker that raised, until
                            \* the script has dealt with the install (line 213)
  feed,                     \* releases (line 192), where the runs are given one
                            \* feed; <<>> where each release is drawn when read
  prev,                     \* history: the config the previous run ended with,
                            \* if it ended after a successful install and
                            \* without reporting a failure
  vx, vy, vlt, vrt          \* operands and results of the Version operations

runvars == <<pc, run, file, dirs, exes, config, installed_versions,
             latest_installed_dev, latest_installed_release, release, idx,
             install, wpc, out, snapshot, pidx, begun, issued, attempts,
             fault, feed, prev>>
vvars == <<vx, vy, vlt, vrt>>
vars == <<runvars, vvars, feed, prev>>

(***************************************************************************)
(* Config store.                                                           *)
(***************************************************************************)
NoFile == [exists |-> FALSE,
           content |-> [config_version |-> 0, default_install_id |-> None,
                        installed |-> <<>>, next_install_id |-> 0]]

\* no previous run, or one that ended without a successful install
NoPrev == NoFile.content

\* what a run prints when a collaborator failed: lines 222, 214 and 164
FailureMessages == {"check_failed", "install_failed", "uninstall_failed"}

\* load_config: a missing file is {'config_version': 0}, which the migration
\* fills in; files are only ever written by save_config, at config_version 1
load_config(f) ==
  LET loaded == IF f.exists THEN f.content ELSE NoFile.content
  IN  IF loaded.config_version = 0
      THEN [config_version |-> 1, default_install_id |-> None,
            installed |-> <<>>, next_install_id |-> 1]
      ELSE loaded

\* save_config, when the write succeeds
save_config(cfg) == [exists |-> TRUE, content |-> cfg]

InstalledRecord(install_id, version, path) ==
  [install_id |-> install_id, version |-> version, path |-> path]

IsDev(v) == v.dev
IsRelease(v) == ~v.dev

(***************************************************************************)
(* get_default_install_path                                                *)
(***************************************************************************)
PathFor(base_path, suffix) ==
  IF suffix = 0 THEN base_path ELSE base_path \o S_dash \o IntToStr(suffix)

get_default_install_path(cfg, version) ==
  LET base_path == S_versions \o Version_str(version)
      suffix == CHOOSE k \in 0..Cardinality(dirs) :
                  /\ PathFor(base_path, k) \notin dirs
                  /\ \A j \in 0..(k - 1) : PathFor(base_path, j) \in dirs
  IN  PathFor(base_path, suffix)

(***************************************************************************)
(* class Install                                                           *)
(***************************************************************************)
NoInstall == [install_id |-> None, action |-> "none", error_msg |-> "unset",
              version |-> NoVersion, install_path |-> <<>>]

\* Failed without the except clause: the worker dies of the exception and
\* records nothing
Failed_unhandled(inst) == inst

\* the except clause of the worker (lines 81-83)
Failed(inst) == [inst EXCEPT !.action = "Failed", !.error_msg = "traceback"]

ThreadAlive == wpc \notin {"none", "dead"}

\* is_done as a test of the action the worker has reported, not of its thread
is_done_by_action == install.action \in {"Done", "Failed"}

\* Install.is_done
is_done == ~ThreadAlive

\* failed with the test of line 213 left out: every install counts as a
\* success
failed_ignored(inst) == FALSE

\* Install.failed
failed(inst) == inst.action = "Failed"

(***************************************************************************)
(* Init: before the first run; no config.json, nothing installed.          *)
(***************************************************************************)
Fresh ==
  /\ pc = "start"
  /\ run = 0
  /\ file = NoFile
  /\ dirs = {}
  /\ exes = {}
  /\ config = NoFile.content
  /\ installed_versions = <<>>
  /\ latest_installed_dev = NoVersion
  /\ latest_installed_release = NoVersion
  /\ release = NoRelease
  /\ idx = 0
  /\ install = NoInstall
  /\ wpc = "none"
  /\ out = {}
  /\ snapshot = <<>>
  /\ pidx = 0
  /\ begun = <<>>
  /\ issued = {}
  /\ attempts = <<>>
  /\ fault = "none"
  /\ vx = NoVersion
  /\ vy = NoVersion
  /\ vlt = "none"
  /\ vrt = "none"
  /\ prev = NoPrev

Init == Fresh /\ feed = <<>>

(***************************************************************************)
(* Lines 176-180: the script starts.                                       *)
(***************************************************************************)
LoadConfig ==
  /\ pc \in {"start", "done", "crashed"}
  /\ run < MaxRuns
  /\ run' = run + 1
  /\ LET cfg == load_config(file)
         ivs == [i \in 1..Len(cfg.installed) |-> Version_parse(cfg.installed[i].version)]
     IN  /\ config' = cfg
         /\ installed_versions' = ivs
         /\ latest_installed_dev' = py_max(SelectSeq(ivs, IsDev))
         /\ latest_installed_release' = py_max(SelectSeq(ivs, IsRelease))
  /\ pc' = "launch"
  /\ release' = NoRelease
  /\ idx' = 0
  /\ install' = NoInstall
  /\ wpc' = "none"
  /\ out' = {}
  /\ snapshot' = <<>>
  /\ pidx' = 0
  /\ begun' = <<>>
  /\ attempts' = <<>>
  /\ fault' = "none"
  /\ prev' = IF /\ pc = "done"
                /\ \E k \in 1..Len(begun) : begun[k].result = "ok"
                /\ out \cap FailureMessages = {}
             THEN config ELSE NoPrev
  /\ UNCHANGED <<file, dirs, exes, issued, vvars, feed>>

(***************************************************************************)
(* Lines 183-186 and launch_app.  An exception here is caught by nothing:  *)
(* the run ends with a traceback.                                          *)
(***************************************************************************)
RecordsWithId(cfg, install_id) ==
  LET Is(i) == i.install_id = install_id
  IN  SelectSeq(cfg.installed, Is)

\* what launch_app can do: "ok", or the exception it raises
launch_app(cfg, install_id) ==
  IF Len(RecordsWithId(cfg, install_id)) = 0 THEN {"IndexError"}
  ELSE IF RecordsWithId(cfg, install_id)[1].path \notin exes THEN {"IndexError"}
  ELSE {"ok", "OSError"}

Launch ==
  /\ pc = "launch"
  /\ IF config.default_install_id = None
     THEN /\ out' = out \cup {"first_time_install"}
          /\ pc' = "check"
     ELSE \E res \in launch_app(config, config.default_install_id) :
            IF res = "ok"
            THEN out' = out \cup {"launching"} /\ pc' = "check"
            ELSE out' = out /\ pc' = "crashed"
  /\ UNCHANGED <<run, file, dirs, exes, config, installed_versions,
                 latest_installed_dev, latest_installed_release, release, idx,
                 install, wpc, snapshot, pidx, begun, issued, attempts, fault,
                 vvars, feed, prev>>

(***************************************************************************)
(* Lines 189-223: the update check.                                        *)
(***************************************************************************)
\* UpdateCheckFailed with a handler that reports and lets the exception end
\* the run
UpdateCheckFailed_fatal(o) ==
  /\ out' = o \cup {"check_failed"}
  /\ pc' = "crashed"
  /\ release' = NoRelease
  /\ idx' = 0

\* the except clause of lines 221-223, after messages o were printed
UpdateCheckFailed(o) ==
  /\ out' = o \cup {"check_failed"}
  /\ pc' = "prune_start"
  /\ release' = NoRelease
  /\ idx' = 0

\* lines 195-203 for one release: "raise", "skip" (continue) or "install"
ResolveRelease(r) ==
  LET got == get_version_from_release(r)
      version == got.version
  IN  IF got.raised # "none" THEN "raise"
      ELSE IF Len(r.assets) = 0 THEN "raise"
      ELSE IF ~r.assets[1].updated_at_ok THEN "raise"
      ELSE IF version.dev /\ latest_installed_dev.seqtype # "none"
              /\ Version_le(version, latest_installed_dev).raised # "none" THEN "raise"
      ELSE IF version.dev /\ latest_installed_dev.seqtype # "none"
              /\ Version_le(version, latest_installed_dev).value THEN "skip"
      ELSE IF ~version.dev /\ latest_installed_release.seqtype # "none"
              /\ Version_le(version, latest_installed_release).raised # "none" THEN "raise"
      ELSE IF ~version.dev /\ latest_installed_release.seqtype # "none"
              /\ Version_le(version, latest_installed_release).value THEN "skip"
      ELSE IF ~version.dev THEN "skip"
      ELSE "install"

\* lines 189-192: the feed is fetched, or urlopen/json.loads raises.  The feed
\* is an input that the loop reads once, front to back: each release is drawn
\* when the loop reaches it (LoopStep)
CheckUpdates ==
  /\ pc = "check"
  /\ \/ /\ pc' = "loop"
        /\ out' = out \cup {"checking_for_updates"}
        /\ UNCHANGED <<release, idx>>
     \/ UpdateCheckFailed(out \cup {"checking_for_updates"})
  /\ UNCHANGED <<run, file, dirs, exes, config, installed_versions,
                 latest_installed_dev, latest_installed_release,
                 install, wpc, snapshot, pidx, begun, issued, attempts, fault,
                 vvars, feed, prev>>

\* Install.begin, lines 51-54 and 85-90
Install_begin(version, install_path) ==
  /\ install' = [install_id |-> config.next_install_id, action |-> "Queued",
                 error_msg |-> "unset", version |-> version,
                 install_path |-> install_path]
  /\ config' = [config EXCEPT !.next_install_id = @ + 1]
  /\ wpc' = "queued"
  /\ begun' = Append(begun, [install_id |-> config.next_install_id,
                             version |-> version, result |-> "pending"])
  /\ issued' = issued \cup {config.next_install_id}
  /\ fault' = "none"

\* lines 195-209 for the release the loop has just read
LoopBody(r) ==
  LET todo == ResolveRelease(r)
      version == get_version_from_release(r).version
  IN  IF todo = "raise"
      THEN /\ UpdateCheckFailed(out)
           /\ UNCHANGED <<install, config, wpc, begun, issued, fault>>
      ELSE IF todo = "skip"
      THEN /\ release' = r
           /\ idx' = idx + 1
           /\ UNCHANGED <<pc, out, install, config, wpc, begun, issued, fault>>
      ELSE /\ pc' = "poll"
           /\ release' = r
           /\ idx' = idx + 1
           /\ out' = out
           /\ Install_begin(version, get_default_install_path(config, version))

\* one pass of the for loop of line 194, up to Install.begin: the feed is
\* exhausted, or it has another release (one that is installed only while
\* install ids are within the bound)
LoopStep ==
  /\ pc = "loop"
  /\ \/ /\ pc' = "prune_start"
        /\ release' = NoRelease
        /\ idx' = 0
        /\ UNCHANGED <<out, install, config, wpc, begun, issued, fault>>
     \/ /\ idx < MaxFeedLen
        /\ \E r \in ReleaseUniverse :
             /\ ResolveRelease(r) = "install" => config.next_install_id <= MaxInstallId
             /\ LoopBody(r)
  /\ UNCHANGED <<run, file, dirs, exes, installed_versions,
                 latest_installed_dev, latest_installed_release,
                 snapshot, pidx, attempts, vvars, feed, prev>>

\* lines 210-212: the worker is still alive; its action is printed, nothing
\* is written
Poll ==
  /\ pc = "poll"
  /\ ~is_done
  /\ UNCHANGED vars

\* lines 213-219: the worker is dead; save_config may raise
FinishInstall ==
  /\ pc = "poll"
  /\ is_done
  /\ LET cfg == IF failed(install) THEN config
                ELSE [config EXCEPT !.default_install_id = install.install_id]
         o == IF failed(install) THEN out \cup {"install_failed"} ELSE out
     IN  /\ config' = cfg
         /\ begun' = [begun EXCEPT ![Len(begun)].result =
                         IF failed(install) THEN "failed" ELSE "ok"]
         /\ \/ /\ file' = save_config(cfg)
               /\ pc' = "loop"
               /\ out' = o
               /\ UNCHANGED <<release, idx>>
            \/ /\ UpdateCheckFailed(o)
               /\ file' = file
  /\ fault' = "none"
  /\ UNCHANGED <<run, dirs, exes, installed_versions,
                 latest_installed_dev, latest_installed_release,
                 install, wpc, snapshot, pidx, issued, attempts, vvars, feed, prev>>

(***************************************************************************)
(* Install.begin.thread, lines 60-83: the worker, one step per statement   *)
(* that another thread can observe or that can raise.                      *)
(***************************************************************************)
\* lines 62-63: the temporary directory is made, or mkdtemp raises
T_enter ==
  /\ wpc = "queued"
  /\ \/ install' = [install EXCEPT !.action = "Downloading"] /\ wpc' = "downloading"
        /\ fault' = fault
     \/ install' = Failed(install) /\ wpc' = "dead" /\ fault' = "mkdtemp"
  /\ UNCHANGED <<pc, run, file, dirs, exes, config, installed_versions,
                 latest_installed_dev, latest_installed_release, release, idx, out, snapshot, pidx, begun, issued, attempts, vvars, feed, prev>>

\* T_download with the archive fetched into install_path instead of the
\* temporary directory: a failed download leaves install_path behind
T_download_into_install_path ==
  /\ wpc = "downloading"
  /\ \/ /\ install' = [install EXCEPT !.action = "Extracting"] /\ wpc' = "extracting"
        /\ fault' = fault
     \/ install' = Failed(install) /\ wpc' = "dead" /\ fault' = "urlretrieve"
  /\ dirs' = dirs \cup {install.install_path}
  /\ UNCHANGED <<pc, run, file, exes, config, installed_versions,
                 latest_installed_dev, latest_installed_release, release, idx,
                 out, snapshot, pidx, begun, issued, attempts, vvars, feed, prev>>

\* lines 64-67: urlretrieve returns, or raises
T_download ==
  /\ wpc = "downloading"
  /\ \/ install' = [install EXCEPT !.action = "Extracting"] /\ wpc' = "extracting"
        /\ fault' = fault
     \/ install' = Failed(install) /\ wpc' = "dead" /\ fault' = "urlretrieve"
  /\ UNCHANGED <<pc, run, file, dirs, exes, config, installed_versions,
                 latest_installed_dev, latest_installed_release, release, idx, out, snapshot, pidx, begun, issued, attempts, vvars, feed, prev>>

\* lines 68-71: the archive is extracted, or ZipFile/extractall raises
T_extract ==
  /\ wpc = "extracting"
  /\ \/ install' = [install EXCEPT !.action = "Installing"] /\ wpc' = "installing"
        /\ fault' = fault
     \/ install' = Failed(install) /\ wpc' = "dead" /\ fault' = "extractall"
  /\ UNCHANGED <<pc, run, file, dirs, exes, config, installed_versions,
                 latest_installed_dev, latest_installed_release, release, idx, out, snapshot, pidx, begun, issued, attempts, vvars, feed, prev>>

\* line 72: shutil.move puts the tree, which holds a STROOP.exe, at
\* install_path, or raises, having copied nothing or a part of it
T_move ==
  /\ wpc = "installing"
  /\ \/ /\ dirs' = dirs \cup {install.install_path}
        /\ exes' = exes \cup {install.install_path}
        /\ wpc' = "registering"
        /\ install' = install
        /\ fault' = fault
     \/ /\ \/ dirs' = dirs
           \/ dirs' = dirs \cup {install.install_path}
        /\ exes' = exes
        /\ install' = Failed(install)
        /\ wpc' = "dead"
        /\ fault' = "move"
  /\ UNCHANGED <<pc, run, file, config, installed_versions,
                 latest_installed_dev, latest_installed_release, release, idx, out, snapshot, pidx, begun, issued, attempts, vvars, feed, prev>>

\* lines 74-78
T_register ==
  /\ wpc = "registering"
  /\ config' = [config EXCEPT !.installed =
                  Append(@, InstalledRecord(install.install_id,
                                            Version_str(install.version),
                                            install.install_path))]
  /\ wpc' = "finishing"
  /\ fault' = fault
  /\ UNCHANGED <<pc, run, file, dirs, exes, installed_versions,
                 latest_installed_dev, latest_installed_release, release, idx,
                 install, out, snapshot, pidx, begun, issued, attempts,
                 vvars, feed, prev>>

\* line 80
T_done ==
  /\ wpc = "finishing"
  /\ install' = [install EXCEPT !.action = "Done"]
  /\ wpc' = "exiting"
  /\ fault' = fault
  /\ UNCHANGED <<pc, run, file, dirs, exes, config, installed_versions,
                 latest_installed_dev, latest_installed_release, release, idx, out, snapshot, pidx, begun, issued, attempts, vvars, feed, prev>>

\* the end of the with block of line 62, inside the try: the temporary
\* directory is removed, or its removal raises into the except clause
T_exit ==
  /\ wpc = "exiting"
  /\ \/ install' = install /\ fault' = fault
     \/ install' = Failed(install) /\ fault' = "cleanup"
  /\ wpc' = "dead"
  /\ UNCHANGED <<pc, run, file, dirs, exes, config, installed_versions,
                 latest_installed_dev, latest_installed_release, release, idx, out, snapshot, pidx, begun, issued, attempts, vvars, feed, prev>>

(***************************************************************************)
(* Lines 226-229 and uninstall_version.                                    *)
(***************************************************************************)
\* line 226 and the list(...) of line 227
PruneStart ==
  /\ pc = "prune_start"
  /\ snapshot' = config.installed
  /\ pidx' = 1
  /\ pc' = "prune"
  /\ out' = out \cup {"uninstalling_old_versions"}
  /\ UNCHANGED <<run, file, dirs, exes, config, installed_versions,
                 latest_installed_dev, latest_installed_release, release, idx,
                 install, wpc, begun, issued, attempts, fault, vvars, feed, prev>>

\* list.remove(x): the first element equal to x goes
RECURSIVE RemoveFirst(_, _)
RemoveFirst(s, x) ==
  IF Len(s) = 0 THEN s
  ELSE IF s[1] = x THEN Tail(s)
  ELSE <<s[1]>> \o RemoveFirst(Tail(s), x)

\* UninstallFailed without the try/except: the exception ends the run
UninstallFailed_propagates(install_id, why) ==
  /\ out' = out \cup {"uninstall_failed"}
  /\ attempts' = Append(attempts, [install_id |-> install_id, outcome |-> why])
  /\ pc' = "crashed"

\* the except clause of lines 163-165: the exception stops here
UninstallFailed(install_id, why) ==
  /\ out' = out \cup {"uninstall_failed"}
  /\ attempts' = Append(attempts, [install_id |-> install_id, outcome |-> why])
  /\ pc' = "prune"

\* lines 157-159
RemoveInstalled(cfg, rec) ==
  [cfg EXCEPT !.installed = RemoveFirst(@, rec),
              !.default_install_id = IF @ = rec.install_id THEN None ELSE @]

\* uninstall_version, lines 148-165
uninstall_version(install_id) ==
  IF Len(RecordsWithId(config, install_id)) = 0
  THEN /\ UninstallFailed(install_id, "no_record")
       /\ UNCHANGED <<config, file, dirs, exes>>
  ELSE
    LET rec == RecordsWithId(config, install_id)[1]
    IN  \/ \* glob finds no STROOP.exe
           /\ rec.path \notin exes
           /\ UninstallFailed(install_id, "no_exe")
           /\ UNCHANGED <<config, file, dirs, exes>>
        \/ \* os.remove raises (the program is running)
           /\ rec.path \in exes
           /\ UninstallFailed(install_id, "remove_failed")
           /\ UNCHANGED <<config, file, dirs, exes>>
        \/ \* save_config raises
           /\ rec.path \in exes
           /\ exes' = exes \ {rec.path}
           /\ config' = RemoveInstalled(config, rec)
           /\ UninstallFailed(install_id, "save_failed")
           /\ UNCHANGED <<file, dirs>>
        \/ \* shutil.rmtree raises
           /\ rec.path \in exes
           /\ exes' = exes \ {rec.path}
           /\ config' = RemoveInstalled(config, rec)
           /\ file' = save_config(RemoveInstalled(config, rec))
           /\ UninstallFailed(install_id, "rmtree_failed")
           /\ UNCHANGED dirs
        \/ /\ rec.path \in exes
           /\ exes' = exes \ {rec.path}
           /\ config' = RemoveInstalled(config, rec)
           /\ file' = save_config(RemoveInstalled(config, rec))
           /\ dirs' = dirs \ {rec.path}
           /\ out' = out
           /\ attempts' = Append(attempts, [install_id |-> install_id, outcome |-> "ok"])
           /\ pc' = "prune"

\* NotDefault with the test of line 228 left out
NotDefault_always(cfg, rec) == TRUE

\* line 228
NotDefault(cfg, rec) == cfg.default_install_id # rec.install_id

\* one pass of the for loop of line 227; past its end the script is over
PruneStep ==
  /\ pc = "prune"
  /\ IF pidx > Len(snapshot)
     THEN /\ pc' = "done"
          /\ UNCHANGED <<pidx, config, file, dirs, exes, out, attempts>>
     ELSE /\ pidx' = pidx + 1
          /\ IF NotDefault(config, snapshot[pidx])
             THEN uninstall_version(snapshot[pidx].install_id)
             ELSE UNCHANGED <<pc, config, file, dirs, exes, out, attempts>>
  /\ UNCHANGED <<run, installed_versions, latest_installed_dev,
                 latest_installed_release, release, idx, install, wpc,
                 snapshot, begun, issued, fault, vvars, feed, prev>>

Next ==
  \/ LoadConfig
  \/ Launch
  \/ CheckUpdates
  \/ LoopStep
  \/ Poll
  \/ FinishInstall
  \/ T_enter
  \/ T_download
  \/ T_extract
  \/ T_move
  \/ T_register
  \/ T_done
  \/ T_exit
  \/ PruneStart
  \/ PruneStep

Spec == Init /\ [][Next]_vars

\* The same, with the scheduling the interpreter gives: the script, once
\* started, runs its next statement, and the worker thread, once started
\* (line 89), gets to run.  Nothing makes the user start a further run, so
\* LoadConfig is left out.  At most one statement of the script and one of
\* the worker is enabled at a time
Script ==
  \/ Launch
  \/ CheckUpdates
  \/ LoopStep
  \/ FinishInstall
  \/ PruneStart
  \/ PruneStep

Worker ==
  \/ T_enter
  \/ T_download
  \/ T_extract
  \/ T_move
  \/ T_register
  \/ T_done
  \/ T_exit

Fairness == WF_vars(Script) /\ WF_vars(Worker)

SpecLive == Spec /\ Fairness

(***************************************************************************)
(* The runs of one user against a feed that stays the same from run to    *)
(* run: releases (line 192) is the same list in every run, and the loop   *)
(* of line 194 reads it front to back.                                     *)
(***************************************************************************)
Feeds == UNION {[1..n -> ReleaseUniverse] : n \in 1..MaxFeedLen}

InitFeed == Fresh /\ feed \in Feeds

\* one pass of the for loop of line 194 over feed, up to Install.begin
LoopStepFeed ==
  /\ pc = "loop"
  /\ IF idx < Len(feed)
     THEN LoopBody(feed[idx + 1])
     ELSE /\ pc' = "prune_start"
          /\ release' = NoRelease
          /\ idx' = 0
          /\ UNCHANGED <<out, install, config, wpc, begun, issued, fault>>
  /\ UNCHANGED <<run, file, dirs, exes, installed_versions,
                 latest_installed_dev, latest_installed_release,
                 snapshot, pidx, attempts, vvars, feed, prev>>

NextFeed ==
  \/ LoadConfig
  \/ Launch
  \/ CheckUpdates
  \/ LoopStepFeed
  \/ Poll
  \/ FinishInstall
  \/ T_enter
  \/ T_download
  \/ T_extract
  \/ T_move
  \/ T_register
  \/ T_done
  \/ T_exit
  \/ PruneStart
  \/ PruneStep

SpecFeed == InitFeed /\ [][NextFeed]_vars

(***************************************************************************)
(* The Version operations on their own: operands are built the two ways    *)
(* the script builds them (Version.parse of a persisted string, line 177;  *)
(* get_version_from_release of a feed entry, line 195) and then compared   *)
(* (lines 43-46) or rendered and parsed back (lines 37-38 and 28-35).      *)
(***************************************************************************)
\* tag 'v10.0'
RelTag10_0 == Release(<<118, 49, 48, 46, 48>>, <<>>, <<Asset(TRUE)>>)
\* tag 'v2'
RelTag2 == Release(<<118, 50>>, <<>>, <<Asset(TRUE)>>)

VersionReleases == ReleaseUniverse \cup {RelTag10_0, RelTag2}

\* the strings save_config can have written for those releases, and 'dev-v1'
VersionStrings ==
  {Version_str(get_version_from_release(r).version) :
     r \in {q \in VersionReleases : get_version_from_release(q).raised = "none"}}
  \cup {<<100, 101, 118, 45, 118, 49>>}

VParse ==
  /\ \E s \in VersionStrings :
       \/ vx' = Version_parse(s) /\ vy' = vy
       \/ vy' = Version_parse(s) /\ vx' = vx
  /\ vlt' = "none"
  /\ vrt' = "none"
  /\ UNCHANGED runvars

VFromRelease ==
  /\ \E r \in VersionReleases :
       /\ get_version_from_release(r).raised = "none"
       /\ \/ vx' = get_version_from_release(r).version /\ vy' = vy
          \/ vy' = get_version_from_release(r).version /\ vx' = vx
  /\ vlt' = "none"
  /\ vrt' = "none"
  /\ UNCHANGED runvars

\* vx < vy
VCompare ==
  /\ vx.seqtype # "none"
  /\ vy.seqtype # "none"
  /\ vlt' = IF Version_lt(vx, vy).raised # "none" THEN Version_lt(vx, vy).raised
            ELSE IF Version_lt(vx, vy).value THEN "true" ELSE "false"
  /\ UNCHANGED <<vx, vy, vrt, runvars>>

\* Version.parse(str(vx)) == vx
VRoundTrip ==
  /\ vx.seqtype # "none"
  /\ vrt' = IF Version_eq(Version_parse(Version_str(vx)), vx) THEN "true" ELSE "false"
  /\ UNCHANGED <<vx, vy, vlt, runvars>>

VNext ==
  \/ VParse
  \/ VFromRelease
  \/ VCompare
  \/ VRoundTrip

SpecVersion == Init /\ [][VNext]_vars

(***************************************************************************)
(* What the claims speak of.                                               *)
(***************************************************************************)
\* the components of a Version as numbers
Numbers(v) ==
  [i \in 1..Len(v.version_number) |->
     IF v.seqtype = "tuple" THEN v.version_number[i]
     ELSE py_int(v.version_number[i]).n]

\* a is older than b, component by component as numbers
NumLess(a, b) ==
  \E k \in 0..Len(Numbers(a)) :
    /\ k <= Len(Numbers(b))
    /\ \A i \in 1..k : Numbers(a)[i] = Numbers(b)[i]
    /\ k < Len(Numbers(b))
    /\ k < Len(Numbers(a)) => Numbers(a)[k + 1] < Numbers(b)[k + 1]

IdsOf(records) == {records[i].install_id : i \in 1..Len(records)}

Succeeded == {k \in 1..Len(begun) : begun[k].result = "ok"}

(***************************************************************************)
(* C1.  In one run the update check begins at most one Install Process:    *)
(* after the first Install.begin, no later release of the feed causes      *)
(* another.                                                                *)
(***************************************************************************)
C1_AtMostOneInstallPerRun == Len(begun) <= 1

(***************************************************************************)
(* C2.  An Install Process is begun for a feed release v only if v is      *)
(* dev-channel and no dev version is installed or v is strictly newer, as  *)
(* a sequence of numbers, than every installed dev version (no reinstall,  *)
(* no downgrade, no release-channel install).  The installed versions are  *)
(* those the run loaded (line 177).                                        *)
(***************************************************************************)
C2_OnlyNewerDevInstalled ==
  \A k \in 1..Len(begun) :
    /\ begun[k].version.dev
    /\ \A i \in 1..Len(installed_versions) :
         installed_versions[i].dev => NumLess(installed_versions[i], begun[k].version)

(***************************************************************************)
(* C3.  For two same-channel Versions, however each was built, v < w is    *)
(* the lexicographic order of their components compared as numbers, a      *)
(* proper prefix being less (and so the comparison raises nothing).        *)
(***************************************************************************)
C3_OrderIsNumeric ==
  (vlt # "none" /\ vx.dev = vy.dev) =>
     vlt = (IF NumLess(vx, vy) THEN "true" ELSE "false")

(***************************************************************************)
(* C4.  Version.parse(str(v)) == v for every Version v, among them those   *)
(* get_version_from_release builds for a release-channel tag and for a Dev *)
(* tag.                                                                    *)
(***************************************************************************)
C4_RoundTrip == vrt # "false"

(***************************************************************************)
(* C5.  An Install Process whose download raised ends Failed with an error *)
(* message, its install_path does not exist afterwards, and no record with *)
(* its install_id is in config['installed'] or in config.json.             *)
(***************************************************************************)
C5_DownloadFailureLeavesNothing ==
  fault = "urlretrieve" =>
    /\ install.action = "Failed"
    /\ install.error_msg # "unset"
    /\ install.install_path \notin dirs
    /\ install.install_id \notin IdsOf(config.installed)
    /\ install.install_id \notin IdsOf(file.content.installed)

C5_Witness == fault = "urlretrieve" /\ wpc = "dead" /\ pc = "poll"

(***************************************************************************)
(* C6.  At the end of a run in which an Install Process succeeded,         *)
(* default_install_id, in memory and in config.json, is the install_id of  *)
(* the record that install made, and the record is in config['installed']. *)
(***************************************************************************)
C6_DefaultIsTheNewInstall ==
  pc = "done" =>
    \A k \in Succeeded :
      /\ config.default_install_id = begun[k].install_id
      /\ begun[k].install_id \in IdsOf(config.installed)
      /\ file.exists
      /\ file.content.default_install_id = begun[k].install_id

(***************************************************************************)
(* C7.  Across runs, next_install_id is greater than the install_id of     *)
(* every record of config['installed'] and of every Install Process begun  *)
(* so far, and no two records share an install_id, in memory and in        *)
(* config.json.                                                            *)
(***************************************************************************)
C7_NextIdAboveAllIssued ==
  run >= 1 =>
    /\ \A id \in issued \cup IdsOf(config.installed) : config.next_install_id > id
    /\ Cardinality(IdsOf(config.installed)) = Len(config.installed)
    /\ file.exists =>
         /\ \A id \in IdsOf(file.content.installed) : file.content.next_install_id > id
         /\ Cardinality(IdsOf(file.content.installed)) = Len(file.content.installed)

(***************************************************************************)
(* C8, as claimed.  After the prune step of a run in which a new install   *)
(* succeeded, config['installed'] holds exactly one record, the new        *)
(* default's, with its files; every other record that existed before the   *)
(* prune step is gone.                                                     *)
(***************************************************************************)
C8_PruneLeavesOnlyTheNewDefault ==
  (pc = "done" /\ Succeeded # {}) =>
    /\ Len(config.installed) = 1
    /\ config.installed[1].install_id = config.default_install_id
    /\ config.installed[1].path \in dirs \cap exes
    /\ \A i \in 1..Len(snapshot) :
         snapshot[i].install_id # config.default_install_id
           => snapshot[i].install_id \notin IdsOf(config.installed)

(***************************************************************************)
(* C8, amended.  After the prune step of a run in which a new install      *)
(* succeeded, the new default's record is still in config['installed'],    *)
(* unchanged, with its directory and its STROOP.exe; every other record    *)
(* that existed before the prune step is gone from config['installed'],    *)
(* except those whose uninstall_version failed before line 157 (no         *)
(* STROOP.exe found, or os.remove raised), which stay.                     *)
(***************************************************************************)
C8_PruneKeepsDefaultRemovesUninstalled ==
  (pc = "done" /\ Succeeded # {}) =>
    /\ \E i \in 1..Len(config.installed) :
         /\ config.installed[i].install_id = config.default_install_id
         /\ \E j \in 1..Len(snapshot) : snapshot[j] = config.installed[i]
         /\ config.installed[i].path \in dirs \cap exes
    /\ \E k \in Succeeded : begun[k].install_id = config.default_install_id
    /\ \A i \in 1..Len(snapshot) :
         snapshot[i].install_id # config.default_install_id
           => (snapshot[i].install_id \in IdsOf(config.installed)
                <=> \E a \in 1..Len(attempts) :
                      /\ attempts[a].install_id = snapshot[i].install_id
                      /\ attempts[a].outcome \in {"no_exe", "remove_failed"})

C8_Witness ==
  /\ pc = "done"
  /\ Succeeded # {}
  /\ Len(snapshot) = 2
  /\ Len(config.installed) = 1
  /\ \E a \in 1..Len(attempts) : attempts[a].outcome = "ok"

(***************************************************************************)
(* C9.  In the prune step uninstall_version is called exactly once, in     *)
(* order, for every record of the snapshot whose install_id is not the     *)
(* default, whatever the earlier calls did; the run does not end before    *)
(* the last of them.                                                       *)
(***************************************************************************)
AttemptedIds == [a \in 1..Len(attempts) |-> attempts[a].install_id]

\* the install ids uninstall_version is due for among the first n records
DueIds(n) ==
  LET Due(rec) == rec.install_id # config.default_install_id
      due == SelectSeq(SubSeq(snapshot, 1, n), Due)
  IN  [i \in 1..Len(due) |-> due[i].install_id]

C9_EveryOldVersionAttemptedOnce ==
  /\ pc = "prune" => AttemptedIds = DueIds(pidx - 1)
  /\ pc \in {"done", "crashed"} => AttemptedIds = DueIds(Len(snapshot))

C9_Witness ==
  /\ pc = "done"
  /\ Len(attempts) = 2
  /\ attempts[1].outcome # "ok"

(***************************************************************************)
(* C10.  A failure in the update check (the fetch, a release that does not *)
(* parse, its asset, an install that ends Failed) is reported and the run  *)
(* goes on to the prune step: a run that began the update check does not   *)
(* end before the prune step ran.                                          *)
(***************************************************************************)
C10_FailedCheckStillPrunes ==
  /\ (pc \in {"done", "crashed"} /\ "checking_for_updates" \in out)
       => "uninstalling_old_versions" \in out
  /\ "check_failed" \in out => pc \in {"prune_start", "prune", "done"}
  /\ \A k \in 1..Len(begun) : begun[k].result = "failed" => "install_failed" \in out

C10_Witness ==
  /\ pc = "done"
  /\ "check_failed" \in out
  /\ "uninstalling_old_versions" \in out

(***************************************************************************)
(* C11.  Every run, once loaded, goes through launch, update check and     *)
(* prune and reaches its end (line 229 done), whatever the collaborators   *)
(* do (launch and executable discovery, feed fetch, download, extract,     *)
(* move, uninstall), the worker thread being scheduled fairly.             *)
(***************************************************************************)
C11_EveryRunEndsAfterPrune == [](pc = "launch" => <>(pc = "done"))

(***************************************************************************)
(* C12.  A release of the feed that does not parse into a Version is       *)
(* skipped: the loop of line 194 goes on to the release after it, so that  *)
(* a qualifying dev release further down the feed is installed in the same *)
(* run.                                                                    *)
(***************************************************************************)
C12_UnparseableReleaseIsSkipped ==
  [][(/\ pc = "loop"
      /\ idx < Len(feed)
      /\ get_version_from_release(feed[idx + 1]).raised # "none")
       => (pc' = "loop" /\ idx' = idx + 1)]_vars

(***************************************************************************)
(* C13.  The action of an Install Process only moves forward along Queued, *)
(* Downloading, Extracting, Installing, Done, or from one of the first     *)
(* four to Failed; once Done or Failed it never changes again, the release *)
(* of the worker's temporary directory included.  (An Install object is    *)
(* known by the install_id it reserved.)                                   *)
(***************************************************************************)
ActionOrder == <<"Queued", "Downloading", "Extracting", "Installing", "Done">>

Rank(a) == CHOOSE i \in 1..Len(ActionOrder) : ActionOrder[i] = a

MovesForward(a, b) ==
  \/ a = b
  \/ /\ a \in {"Queued", "Downloading", "Extracting", "Installing"}
     /\ \/ b = "Failed"
        \/ b \in {"Downloading", "Extracting", "Installing", "Done"} /\ Rank(a) < Rank(b)

C13_ActionOnlyMovesForward ==
  [][install'.install_id = install.install_id
       => MovesForward(install.action, install'.action)]_vars

(***************************************************************************)
(* C14, as claimed.  While the script polls an Install Process (lines      *)
(* 210-213): if its action is Done or Failed then is_done() is true, and   *)
(* is_done() is never true while the action is Queued, Downloading,        *)
(* Extracting or Installing.                                               *)
(***************************************************************************)
Terminal(inst) == inst.action \in {"Done", "Failed"}

C14_TerminalIffIsDone == pc = "poll" => (Terminal(install) <=> is_done)

(***************************************************************************)
(* C14, amended.  While the script polls an Install Process, is_done() is  *)
(* true only if its action is Done or Failed; a Done or Failed action is   *)
(* seen with is_done() still false only after the worker has run its last  *)
(* statement and before its thread has ended.                              *)
(***************************************************************************)
C14_IsDoneOnlyWhenTerminal ==
  pc = "poll" =>
    /\ is_done => Terminal(install)
    /\ (Terminal(install) /\ ~is_done) => wpc = "exiting"

C14_Witness == pc = "poll" /\ is_done /\ install.action = "Done"

(***************************************************************************)
(* C15.  At most one install worker thread is alive at a time: Install     *)
(* .begin is never called while a worker is alive.  While a worker is      *)
(* alive the script does nothing but poll: it does not change config       *)
(* (installed, default_install_id, next_install_id) and does not call      *)
(* save_config; the only write to config is the worker's own append of     *)
(* lines 74-78.                                                            *)
(***************************************************************************)
\* what only the script writes
ScriptVars == <<pc, run, release, idx, out, snapshot, pidx, file, begun,
                issued, attempts>>

C16_DefaultSetAfterRecordSaved ==
  [][(/\ config'.default_install_id # config.default_install_id
      /\ config'.default_install_id # None)
       => /\ file.exists
          /\ config'.default_install_id \in IdsOf(file.content.installed)]_vars

(***************************************************************************)
(* C17.  A record with a given install_id is in config['installed'] only   *)
(* if the Install Process that reserved the id ended Done: an install the  *)
(* script sees as Failed (line 213) has left no record with its id in      *)
(* config['installed'], and none reaches config.json.                      *)
(***************************************************************************)
C17_FailedInstallLeavesNoRecord ==
  /\ (pc = "poll" /\ is_done /\ failed(install))
       => install.install_id \notin IdsOf(config.installed)
  /\ \A k \in 1..Len(begun) :
       (begun[k].result = "failed" /\ pc \in {"loop", "poll", "prune_start"})
         => begun[k].install_id \notin
              IdsOf(config.installed) \cup IdsOf(file.content.installed)

(***************************************************************************)
(* C18.  Across the runs that start from a fresh config, default_install_id*)
(* is None or the install_id of exactly one record of config['installed'], *)
(* in the config in memory and in every config.json that save_config has   *)
(* written; so line 169 of launch_app finds the record of the default it   *)
(* is asked to launch.                                                     *)
(***************************************************************************)
DefaultIsARecord(cfg) ==
  \/ cfg.default_install_id = None
  \/ Len(RecordsWithId(cfg, cfg.default_install_id)) = 1

C18_DefaultIsNoneOrOneRecord ==
  /\ DefaultIsARecord(config)
  /\ file.exists => DefaultIsARecord(file.content)
  /\ (pc = "launch" /\ config.default_install_id # None)
       => Len(RecordsWithId(config, config.default_install_id)) = 1

C18_Witness ==
  /\ pc = "launch"
  /\ run = 2
  /\ config.default_install_id # None
  /\ Len(config.installed) = 2

(***************************************************************************)
(* C19.  If a run ended with a successful install, the run that follows    *)
(* it against the same feed, no collaborator failing, begins no Install    *)
(* Process and ends with default_install_id, next_install_id and the       *)
(* installed records as the earlier run left them.                         *)
(***************************************************************************)
C19_SecondRunChangesNothing ==
  (prev # NoPrev /\ pc = "done" /\ out \cap FailureMessages = {})
    => /\ begun = <<>>
       /\ config.default_install_id = prev.default_install_id
       /\ config.next_install_id = prev.next_install_id
       /\ config.installed = prev.installed

(***************************************************************************)
(* C20.  When uninstall_version fails, at whichever step (finding or       *)
(* deleting STROOP.exe, saving the config, deleting the directory),        *)
(* config['installed'], config['default_install_id'] and config.json are   *)
(* as they were before the call: the record is still there, for the next   *)
(* run's prune step to try again.                                          *)
(***************************************************************************)
C20_FailedUninstallChangesNothing ==
  [][(/\ Len(attempts') = Len(attempts) + 1
      /\ attempts'[Len(attempts')].outcome # "ok")
       => /\ config'.installed = config.installed
          /\ config'.default_install_id = config.default_install_id
          /\ file' = file
          /\ attempts'[Len(attempts')].install_id \in IdsOf(config'.installed)]_vars

====
